---------------------------- MODULE Spec2Model ----------------------------
(***************************************************************************)
(* Reflashing back-end of the npkern kernel for two flash controllers:     *)
(*   SH7051        src/pl_flash_7051.c      (32-byte write chunks)         *)
(*   SH7055 350nm  src/platf_7055_350nm.c   (128-byte write chunks)        *)
(*                                                                         *)
(* The driver is modelled statement by statement: every write to a flash   *)
(* control register, block-select register, watchdog register or flash     *)
(* location is one step.  8-bit registers are integers 0..255; 32-bit      *)
(* flash words are the sets of their 1-bit positions (0..31), so that      *)
(* a & b is intersection, a | b union and ~a the complement.               *)
(*                                                                         *)
(* The flash array itself is the environment.  It is sampled at two write  *)
(* chunks per chip (the last chunk governed by FLMCR1 and the first one    *)
(* governed by FLMCR2); a program pulse can only move cells 1 -> 0, an     *)
(* erase pulse only 0 -> 1, and a pulse may be weak (MaxWeak times) or, on *)
(* a stuck device, never take effect.                                      *)
(***************************************************************************)
EXTENDS Integers, Naturals, Sequences, FiniteSets, TLC

VARIABLES
    chip,            \* which source file is compiled in
    FLMCR1, FLMCR2,  \* flash control registers (bit 7: FWE / FLER, read-only)
    EBR1, EBR2,      \* block-select registers
    TCSR, RSTCSR,    \* watchdog: last value written
    flash,           \* sampled flash cells: word address -> word
    latch,           \* data latched by writes to flash locations: [base, data]
    imask,           \* CPU interrupt mask level
    reflash_enabled, pFLMCR, pEBR,                    \* file-scope statics
    pc,              \* position in the running operation ("idle": none)
    blockno, count, bitsel, vfrv,                     \* platf_flash_eb / ferase / ferasevf
    dest, src, len,                                   \* platf_flash_wb
    n, m, rv, cur, reprog, addit, srcmem,             \* flash_write32 / flash_write128
    tsp, wpsite, uim,                                 \* writepulse
    ret, call,       \* last return value (0 while running); the operation called last
    stuck, weak,     \* device: never reacts to a pulse / weak pulses left
    hwOps,           \* number of operations that went on to drive the hardware
    touched,         \* the running/last operation wrote to the hardware
    epulses, evfails,\* erase pulses / failed verify passes of this eraseBlock
    faultSeen,       \* a verify readback had 0 where the source word has 1
    cleanPass,       \* a program-verify pass ended without mismatch
    wstart,          \* this writeChunk: chunk erased at entry, number of the last attempt,
                     \* buffer latched for it, attempts made (counted up to OW_COUNT + 1)
    chunkLog         \* writeChunk calls of this writeRange: <<dest, rv>>

vars == << chip, FLMCR1, FLMCR2, EBR1, EBR2, TCSR, RSTCSR, flash, latch, imask,
           reflash_enabled, pFLMCR, pEBR, pc, blockno, count, bitsel, vfrv,
           dest, src, len, n, m, rv, cur, reprog, addit, srcmem, tsp, wpsite,
           uim, ret, call, stuck, weak, hwOps, touched, epulses, evfails,
           faultSeen, cleanPass, wstart, chunkLog >>

flmcrVars == << FLMCR1, FLMCR2 >>
ebrVars   == << EBR1, EBR2 >>
wdtVars   == << TCSR, RSTCSR >>
cellVars  == << flash, latch >>
ptrVars   == << pFLMCR, pEBR >>
retVars   == << ret, call >>
ebVars    == << blockno, count, bitsel, vfrv >>
ebGhost   == << epulses, evfails >>
wbVars    == << dest, src, len >>
fwVars    == << n, m, rv, reprog, addit, srcmem >>
fwGhost   == << faultSeen, cleanPass, wstart, chunkLog >>
wpVars    == << tsp, wpsite, uim >>
devVars   == << stuck, weak >>
sessVars  == << chip, reflash_enabled >>

-----------------------------------------------------------------------------
(* Bounds of the model.  MaxHwOps bounds the eraseBlock / writeRange calls  *)
(* that go on to drive the hardware in one run (calls that return at once, *)
(* platf_flash_init and platf_flash_unprotect are not bounded); MaxWeak    *)
(* bounds the pulses a healthy device fails to complete.                   *)

MaxHwOps == 1
MaxWeak == 2

-----------------------------------------------------------------------------
(* Chip variants and their constants *)

SH7051 == "SH7051"
SH7055_35 == "SH7055_35"
Chips == {SH7051, SH7055_35}

FL_MAXROM_7051 == 262143
FL_MAXROM_7055 == 524287
FL_MAXROM(c) == IF c = SH7051 THEN FL_MAXROM_7051 ELSE FL_MAXROM_7055

MAX_ET_7051 == 61
MAX_ET_7055 == 100
MAX_ET(c) == IF c = SH7051 THEN MAX_ET_7051 ELSE MAX_ET_7055

MAX_WT_7051 == 400
MAX_WT_7055 == 1000
MAX_WT(c) == IF c = SH7051 THEN MAX_WT_7051 ELSE MAX_WT_7055

OW_COUNT == 6

BLK_MAX_7051 == 12
BLK_MAX_7055 == 16
BLK_MAX(c) == IF c = SH7051 THEN BLK_MAX_7051 ELSE BLK_MAX_7055

FLMCR2_BEGIN == 131072
FLMCR1_MAXBLOCK == 7

CHUNK_7051 == 32
CHUNK_7055 == 128
CHUNK(c) == IF c = SH7051 THEN CHUNK_7051 ELSE CHUNK_7055

fblocks_7051 ==
    << 0, 32768, 65536, 98304, 131072, 163840, 196608, 229376,
       258048, 259072, 260096, 261120, 262144 >>

fblocks_7055 ==
    << 0, 4096, 8192, 12288, 16384, 20480, 24576, 28672, 32768,
       65536, 131072, 196608, 262144, 327680, 393216, 458752, 524288 >>

\* fblocks[i] of the C table (0-based)
fblocks(c, i) == IF c = SH7051 THEN fblocks_7051[i + 1] ELSE fblocks_7055[i + 1]

FLMCR_FWE == 128
FLMCR_FLER == 128
FLMCR_SWE == 64
FLMCR_ESU == 32
FLMCR_PSU == 16
FLMCR_EV == 8
FLMCR_PV == 4
FLMCR_E == 2
FLMCR_P == 1

WDT_TCSR_ESTART == 42366
WDT_TCSR_WSTART == 42365
WDT_TCSR_STOP == 42328
WDT_RSTCSR_SETTING_7051 == 23119
WDT_RSTCSR_SETTING_7055 == 23135
WDT_RSTCSR_SETTING(c) ==
    IF c = SH7051 THEN WDT_RSTCSR_SETTING_7051 ELSE WDT_RSTCSR_SETTING_7055

TSP500 == 500
TSP10 == 10
TSP30 == 30
TSP200 == 200

PF_ERROR == 128
FL_ERROR == 128
PFEB_BADBLOCK == 132
PFEB_VERIFAIL == 133
PFWB_OOB == 136
PFWB_MISALIGNED == 137
PFWB_LEN == 138
PFWB_VERIFAIL == 139
PFWB_MAXRET == 140

-----------------------------------------------------------------------------
(* C operators on 8-bit register values *)

RECURSIVE BitAnd(_, _)
BitAnd(a, b) ==
    IF a = 0 \/ b = 0 THEN 0
    ELSE (a % 2) * (b % 2) + 2 * BitAnd(a \div 2, b \div 2)

RECURSIVE BitOr(_, _)
BitOr(a, b) ==
    IF a = 0 THEN b
    ELSE IF b = 0 THEN a
    ELSE (IF a % 2 = 1 \/ b % 2 = 1 THEN 1 ELSE 0) + 2 * BitOr(a \div 2, b \div 2)

\* ~x truncated to the 8 bits of a register
BitNot8(x) == 255 - x

\* !x
LogicalNot(x) == IF x = 0 THEN 1 ELSE 0

RECURSIVE ShiftLeft(_, _)
ShiftLeft(x, k) == IF k = 0 THEN x ELSE ShiftLeft(2 * x, k - 1)

RECURSIVE ShiftRight(_, _)
ShiftRight(x, k) == IF k = 0 THEN x ELSE ShiftRight(x \div 2, k - 1)

HasBit(reg, bit) == BitAnd(reg, bit) # 0

\* Bit 7 of FLMCR1 (FWE pin) and FLMCR2 (FLER latch) is read-only: a store
\* changes the low seven bits only.
StoreReg(old, new) == BitAnd(old, 128) + (new % 128)

-----------------------------------------------------------------------------
(* 32-bit words as sets of 1-bit positions *)

WordBitsSet == 0 .. 31
AllOnes == WordBitsSet
WAnd(a, b) == a \cap b
WOr(a, b) == a \cup b
WNot(a) == WordBitsSet \ a

\* the low 16 bits of an integer as a set of bit positions
Low16(x) == { i \in 0 .. 15 : (x \div (2 ^ i)) % 2 = 1 }

\* The payload buffer lives in on-chip RAM at 0xFFFFxxxx: the u32 value of a
\* source pointer whose low half is x.
SrcPtrWord(x) == (16 .. 31) \cup Low16(x)

\* The sampled words of a chunk: its first and its last one.  The loops over a
\* chunk (cur = 0; cur < CHUNK; cur += 4) visit the sampled offsets in order.
WordOffs(c) == { 0, CHUNK(c) - 4 }

ChunkOf(c, w) == [ o \in WordOffs(c) |-> w ]

-----------------------------------------------------------------------------
(* The flash array (environment) *)

\* first address governed by FLMCR2
RegThreshold(c) == IF c = SH7051 THEN FLMCR2_BEGIN ELSE fblocks(c, FLMCR1_MAXBLOCK + 1)

\* the control register whose pulses act on address a
GovReg(c, a) == IF a < RegThreshold(c) THEN "FLMCR1" ELSE "FLMCR2"

\* the block holding address a
BlockOf(c, a) == CHOOSE b \in 0 .. BLK_MAX(c) - 1 : fblocks(c, b) <= a /\ a < fblocks(c, b + 1)

\* the blocks an erase pulse through register reg acts on: 7051 has EB0..3 in
\* EBR1 and EB4..11 in EBR2, 7055 has EB0..7 in EBR1 and EB8..15 in EBR2
BlocksSelected(c, reg, e1, e2) ==
    LET k1 == IF c = SH7051 THEN 4 ELSE 8
    IN  IF reg = "FLMCR1"
        THEN { b \in 0 .. k1 - 1 : HasBit(e1, ShiftLeft(1, b)) }
        ELSE { k1 + b : b \in { x \in 0 .. 7 : HasBit(e2, ShiftLeft(1, x)) } }

\* the sampled chunks: the last one below the register threshold, the first one
\* above, and the last one of the ROM
ChunkA(c) == RegThreshold(c) - CHUNK(c)
ChunkB(c) == RegThreshold(c)
ChunkC(c) == FL_MAXROM(c) + 1 - CHUNK(c)
TrackedChunks(c) == { ChunkA(c), ChunkB(c), ChunkC(c) }
Tracked(c) == { b + o : b \in TrackedChunks(c), o \in WordOffs(c) }
ChunkBase(c, a) == a - (a % CHUNK(c))

DirtyWord == 0 .. 30
Zeros == {}
LowClear == 12 .. 31
EasyBits == 0 .. 15

\* what a pulse of strength s leaves alone
Keep(s) == IF s = "full" THEN {} ELSE IF s = "part" THEN AllOnes \ EasyBits ELSE AllOnes

Strengths(st, wk, kinds) == IF st THEN {"none"} ELSE IF wk > 0 THEN kinds ELSE {"full"}

\* a program pulse through reg: cells of the latched chunk go 1 -> 0 where the latch holds 0
ProgramCells(c, reg, fl, lt, s) ==
    IF lt.base \in TrackedChunks(c) /\ GovReg(c, lt.base) = reg
    THEN [ a \in DOMAIN fl |->
             IF ChunkBase(c, a) = lt.base
             THEN fl[a] \cap (lt.data[a - lt.base] \cup Keep(s))
             ELSE fl[a] ]
    ELSE fl

\* an erase pulse through reg: cells of the selected blocks go 0 -> 1
EraseCells(c, reg, e1, e2, fl, s) ==
    [ a \in DOMAIN fl |->
        IF s = "full" /\ BlockOf(c, a) \in BlocksSelected(c, reg, e1, e2)
        THEN AllOnes ELSE fl[a] ]

\* a CPU write of word w to flash location a
LatchWord(c, lt, a, w) ==
    IF lt.base = ChunkBase(c, a)
    THEN [ lt EXCEPT !.data[a - lt.base] = w ]
    ELSE [ base |-> ChunkBase(c, a),
           data |-> [ ChunkOf(c, AllOnes) EXCEPT ![a - ChunkBase(c, a)] = w ] ]

NoChunk == ChunkOf(SH7051, AllOnes)

-----------------------------------------------------------------------------
(* Helpers of the driver *)

Reg(which) == IF which = "FLMCR1" THEN FLMCR1 ELSE FLMCR2

\* *which = val
SetFLMCR(which, val) ==
    /\ FLMCR1' = IF which = "FLMCR1" THEN StoreReg(FLMCR1, val) ELSE FLMCR1
    /\ FLMCR2' = IF which = "FLMCR2" THEN StoreReg(FLMCR2, val) ELSE FLMCR2

\* *which |= bit
OrBits(reg, bit) == BitOr(reg, bit)
\* *which &= ~bit
ClearBits(reg, bit) == BitAnd(reg, BitNot8(bit))

fwecheck(fl1, fl2) == HasBit(fl1, FLMCR_FWE) /\ ~HasBit(fl2, FLMCR_FLER)

\* the register holding the SWE bit that sweset / sweclear act on
SweReg(c, pF) == IF c = SH7051 THEN "FLMCR1" ELSE pF

sweset_value(reg) == OrBits(reg, FLMCR_SWE)

sweclear_forgotten(reg) == reg

sweclear_value(reg) == ClearBits(reg, FLMCR_SWE)

\* locals die when an operation returns
LocalsReset ==
    /\ blockno' = 0 /\ count' = 0 /\ bitsel' = 0 /\ vfrv' = TRUE
    /\ dest' = 0 /\ src' = 0 /\ len' = 0
    /\ n' = 0 /\ m' = FALSE /\ rv' = 0 /\ cur' = 0
    /\ reprog' = NoChunk /\ addit' = NoChunk /\ srcmem' = NoChunk
    /\ tsp' = 0 /\ wpsite' = "none" /\ uim' = 0

Return(value) == pc' = "idle" /\ ret' = value /\ LocalsReset

-----------------------------------------------------------------------------
(* Initial state: after reset, before platf_flash_init *)

Init ==
    /\ chip \in Chips
    /\ FLMCR1 \in {0, FLMCR_FWE}
    /\ FLMCR2 \in {0, FLMCR_FLER}
    /\ EBR1 = 0 /\ EBR2 = 0
    /\ TCSR = WDT_TCSR_STOP /\ RSTCSR = 0
    /\ flash \in { [ a \in Tracked(chip) |-> w ] : w \in {AllOnes, DirtyWord} }
    /\ latch = [ base |-> -1, data |-> NoChunk ]
    /\ imask = 0
    /\ reflash_enabled = FALSE
    /\ pFLMCR = "NULL" /\ pEBR = "NULL"
    /\ pc = "idle"
    /\ blockno = 0 /\ count = 0 /\ bitsel = 0 /\ vfrv = TRUE
    /\ dest = 0 /\ src = 0 /\ len = 0
    /\ n = 0 /\ m = FALSE /\ rv = 0 /\ cur = 0
    /\ reprog = NoChunk /\ addit = NoChunk /\ srcmem = NoChunk
    /\ tsp = 0 /\ wpsite = "none" /\ uim = 0
    /\ ret = 0
    /\ call = [ op |-> "none", args |-> << >>, en |-> FALSE, blank |-> FALSE ]
    /\ stuck \in BOOLEAN
    /\ weak = MaxWeak
    /\ hwOps = 0
    /\ touched = FALSE
    /\ epulses = 0 /\ evfails = 0
    /\ faultSeen = FALSE /\ cleanPass = FALSE
    /\ wstart = [ erased |-> FALSE, last |-> 0, latched |-> ChunkOf(chip, AllOnes), tries |-> 0 ]
    /\ chunkLog = << >>

\* every sampled word of block b reads all-ones
BlockBlank(c, fl, b) ==
    \A a \in DOMAIN fl : (fblocks(c, b) <= a /\ a < fblocks(c, b + 1)) => fl[a] = AllOnes

\* Every operation starts from pc = "idle" and resets the bookkeeping; call keeps
\* the request, the enabled flag at entry and, for an erase, whether the block
\* was blank at entry.
Enter(op, args) ==
    /\ pc = "idle"
    /\ call' = [ op |-> op, args |-> args, en |-> reflash_enabled,
                 blank |-> IF op = "eb" /\ args[1] < BLK_MAX(chip)
                           THEN BlockBlank(chip, flash, args[1]) ELSE FALSE ]
    /\ touched' = FALSE
    /\ epulses' = 0 /\ evfails' = 0
    /\ faultSeen' = FALSE /\ cleanPass' = FALSE
    /\ wstart' = [ erased |-> FALSE, last |-> 0, latched |-> ChunkOf(chip, AllOnes), tries |-> 0 ]
    /\ chunkLog' = << >>

-----------------------------------------------------------------------------
(* platf_flash_init, platf_flash_unprotect *)

platf_flash_init ==
    /\ Enter("init", << >>)
    /\ reflash_enabled' = FALSE
    /\ Return(IF fwecheck(FLMCR1, FLMCR2) THEN 1 ELSE 0)
    /\ UNCHANGED << chip, hwOps, flmcrVars, ebrVars, wdtVars, cellVars, imask, ptrVars, devVars >>

platf_flash_unprotect ==
    /\ Enter("unprotect", << >>)
    /\ reflash_enabled' = TRUE
    /\ Return(0)
    /\ UNCHANGED << chip, hwOps, flmcrVars, ebrVars, wdtVars, cellVars, imask, ptrVars, devVars >>

-----------------------------------------------------------------------------
(* Erase: platf_flash_eb, ferase, ferasevf *)

BlockInputs(c) == { BlockOf(c, ChunkA(c)), BlockOf(c, ChunkB(c)), BLK_MAX(c), BLK_MAX(c) + 1, 255 }

eb_badblock_above(c, b) == b > BLK_MAX(c)

\* if (blockno >= BLK_MAX) return PFEB_BADBLOCK;
eb_badblock(c, b) == b >= BLK_MAX(c)

eb_protected_never(en) == FALSE

\* if (!reflash_enabled) return 0;
eb_protected(en) == ~en

eb_select_FLMCR(c, b) ==
    IF c = SH7051
    THEN IF fblocks(c, b) >= FLMCR2_BEGIN THEN "FLMCR2" ELSE "FLMCR1"
    ELSE IF b > FLMCR1_MAXBLOCK THEN "FLMCR1" ELSE "FLMCR2"

eb_select_EBR(c, b, old) ==
    IF c = SH7051 THEN old
    ELSE IF b > FLMCR1_MAXBLOCK THEN "EBR1" ELSE "EBR2"

\* return value of a failed fwecheck()
eb_fwe_code(c) == IF c = SH7051 THEN PF_ERROR ELSE -1

\* return value once every attempt failed
eb_verifail_code(c) == IF c = SH7051 THEN PFEB_VERIFAIL ELSE -1

ferase_bitsel(c, b) == IF c = SH7051 THEN ShiftLeft(1, b) ELSE ShiftLeft(1, BitAnd(b, 7))

\* the sampled words of [from, end), in ascending order
NextCur(c, from, end) ==
    LET S == { a \in Tracked(c) : from <= a /\ a < end }
    IN  IF S = {} THEN end ELSE CHOOSE a \in S : \A x \in S : a <= x

ferasevf_mismatch_inverted(w) == w = AllOnes

\* if (*cur != 0xFFFFFFFF)
ferasevf_mismatch(w) == w # AllOnes

platf_flash_eb(b) ==
    /\ Enter("eb", << b >>)
    /\ UNCHANGED << chip, reflash_enabled, flmcrVars, ebrVars, wdtVars, cellVars, imask, devVars >>
    /\ IF eb_badblock(chip, b)
       THEN Return(PFEB_BADBLOCK) /\ UNCHANGED << ptrVars, hwOps >>
       ELSE IF eb_protected(reflash_enabled)
       THEN Return(0) /\ UNCHANGED << ptrVars, hwOps >>
       ELSE /\ pFLMCR' = eb_select_FLMCR(chip, b)
            /\ pEBR' = eb_select_EBR(chip, b, pEBR)
            /\ IF ~fwecheck(FLMCR1, FLMCR2)
               THEN Return(eb_fwe_code(chip)) /\ UNCHANGED hwOps
               ELSE /\ hwOps < MaxHwOps
                    /\ hwOps' = hwOps + 1
                    /\ pc' = "eb_sweset"
                    /\ blockno' = b
                    /\ ret' = 0
                    /\ UNCHANGED << count, bitsel, vfrv, wbVars, fwVars, cur, wpVars >>

eb_sweset ==
    /\ pc = "eb_sweset"
    /\ SetFLMCR(SweReg(chip, pFLMCR), sweset_value(Reg(SweReg(chip, pFLMCR))))
    /\ touched' = TRUE
    /\ pc' = "eb_wdt_stop"
    /\ UNCHANGED << sessVars, hwOps, ebrVars, wdtVars, cellVars, imask, ptrVars, retVars,
                    ebVars, ebGhost, wbVars, fwVars, fwGhost, cur, wpVars, devVars >>

eb_wdt_stop ==
    /\ pc = "eb_wdt_stop"
    /\ TCSR' = WDT_TCSR_STOP
    /\ touched' = TRUE
    /\ pc' = "eb_wdt_rst"
    /\ UNCHANGED << sessVars, hwOps, flmcrVars, ebrVars, RSTCSR, cellVars, imask, ptrVars,
                    retVars, ebVars, ebGhost, wbVars, fwVars, fwGhost, cur, wpVars, devVars >>

eb_wdt_rst ==
    /\ pc = "eb_wdt_rst"
    /\ RSTCSR' = WDT_RSTCSR_SETTING(chip)
    /\ touched' = TRUE
    /\ count' = 0
    /\ pc' = "eb_loop"
    /\ UNCHANGED << sessVars, hwOps, flmcrVars, ebrVars, TCSR, cellVars, imask, ptrVars,
                    retVars, blockno, bitsel, vfrv, ebGhost, wbVars, fwVars, fwGhost, cur,
                    wpVars, devVars >>

\* for (count = 0; count < MAX_ET; count++) { ferase(blockno); ...
eb_attempt ==
    /\ pc = "eb_loop"
    /\ count < MAX_ET(chip)
    /\ bitsel' = ferase_bitsel(chip, blockno)
    /\ pc' = IF chip = SH7051 THEN "fe_ebr2_zero" ELSE "fe_pebr"
    /\ UNCHANGED << sessVars, hwOps, flmcrVars, ebrVars, wdtVars, cellVars, imask, ptrVars,
                    retVars, blockno, count, vfrv, ebGhost, wbVars, fwVars, fwGhost, cur,
                    wpVars, devVars, touched >>

\* all attempts failed: sweclear(); return PFEB_VERIFAIL / -1
eb_badexit ==
    /\ pc = "eb_loop"
    /\ count >= MAX_ET(chip)
    /\ SetFLMCR(SweReg(chip, pFLMCR), sweclear_value(Reg(SweReg(chip, pFLMCR))))
    /\ touched' = TRUE
    /\ Return(eb_verifail_code(chip))
    /\ UNCHANGED << sessVars, hwOps, ebrVars, wdtVars, cellVars, imask, ptrVars, call,
                    ebGhost, fwGhost, devVars >>

\* a plain step of ferase: one store to a block-select or watchdog register
FeStep(at, next) ==
    /\ pc = at
    /\ pc' = next
    /\ touched' = TRUE
    /\ UNCHANGED << sessVars, hwOps, flmcrVars, cellVars, imask, ptrVars, retVars, ebVars,
                    ebGhost, wbVars, fwVars, fwGhost, cur, wpVars, devVars >>

\* 7051: FLASH.EBR2.BYTE = 0
fe_ebr2_zero == FeStep("fe_ebr2_zero", "fe_ebr1") /\ EBR2' = 0 /\ UNCHANGED << EBR1, wdtVars >>

\* 7051: FLASH.EBR1.BYTE = bitsel & 0x0F
fe_ebr1 ==
    FeStep("fe_ebr1", "fe_ebr2") /\ EBR1' = BitAnd(bitsel, 15) /\ UNCHANGED << EBR2, wdtVars >>

\* 7051: FLASH.EBR2.BYTE = (bitsel >> 4) & 0xFF
fe_ebr2 ==
    /\ FeStep("fe_ebr2", "fe_wdt_stop")
    /\ EBR2' = BitAnd(ShiftRight(bitsel, 4), 255)
    /\ UNCHANGED << EBR1, wdtVars >>

\* 7055: *pEBR = bitsel
fe_pebr ==
    /\ FeStep("fe_pebr", "fe_wdt_stop")
    /\ EBR1' = IF pEBR = "EBR1" THEN bitsel ELSE EBR1
    /\ EBR2' = IF pEBR = "EBR2" THEN bitsel ELSE EBR2
    /\ UNCHANGED wdtVars

fe_wdt_stop ==
    FeStep("fe_wdt_stop", "fe_wdt_estart") /\ TCSR' = WDT_TCSR_STOP /\ UNCHANGED << ebrVars, RSTCSR >>

\* the erase pulse guarded by the write timeout class
fe_wdt_estart_wclass ==
    FeStep("fe_wdt_estart", "fe_esu") /\ TCSR' = WDT_TCSR_WSTART /\ UNCHANGED << ebrVars, RSTCSR >>

fe_wdt_estart ==
    FeStep("fe_wdt_estart", "fe_esu") /\ TCSR' = WDT_TCSR_ESTART /\ UNCHANGED << ebrVars, RSTCSR >>

\* a step of ferase / ferasevf on the selected control register
FlmcrStep(at, next, val) ==
    /\ pc = at
    /\ pc' = next
    /\ SetFLMCR(pFLMCR, val)
    /\ touched' = TRUE
    /\ UNCHANGED << sessVars, hwOps, ebrVars, wdtVars, imask, ptrVars, retVars, blockno,
                    count, bitsel, wbVars, fwVars, fwGhost, wpVars >>

fe_esu ==
    /\ FlmcrStep("fe_esu", "fe_e", OrBits(Reg(pFLMCR), FLMCR_ESU))
    /\ UNCHANGED << cellVars, devVars, vfrv, cur, ebGhost >>

\* start of the erase pulse
fe_e ==
    /\ FlmcrStep("fe_e", "fe_e_clr", OrBits(Reg(pFLMCR), FLMCR_E))
    /\ epulses' = epulses + 1
    /\ UNCHANGED << cellVars, devVars, vfrv, cur, evfails >>

\* end of the erase pulse: the selected blocks have been erased, or not
fe_e_clr ==
    /\ FlmcrStep("fe_e_clr", "fe_esu_clr", ClearBits(Reg(pFLMCR), FLMCR_E))
    /\ \E s \in Strengths(stuck, weak, {"full", "none"}) :
          /\ flash' = EraseCells(chip, pFLMCR, EBR1, EBR2, flash, s)
          /\ weak' = IF s = "full" \/ stuck THEN weak ELSE weak - 1
    /\ UNCHANGED << latch, stuck, vfrv, cur, ebGhost >>

fe_esu_clr ==
    /\ FlmcrStep("fe_esu_clr", "fe_wdt_stop2", ClearBits(Reg(pFLMCR), FLMCR_ESU))
    /\ UNCHANGED << cellVars, devVars, vfrv, cur, ebGhost >>

fe_wdt_stop2 ==
    /\ FeStep("fe_wdt_stop2", IF chip = SH7051 THEN "fe_ebr1_clr" ELSE "fe_pebr_clr")
    /\ TCSR' = WDT_TCSR_STOP
    /\ UNCHANGED << ebrVars, RSTCSR >>

\* 7051: FLASH.EBR1.BYTE = 0
fe_ebr1_clr == FeStep("fe_ebr1_clr", "fe_ebr2_clr") /\ EBR1' = 0 /\ UNCHANGED << EBR2, wdtVars >>

\* end of ferase (7051: FLASH.EBR2.BYTE = 0; 7055: *pEBR = 0), entry of ferasevf
FeLast(at) ==
    /\ pc = at
    /\ pc' = "ev_loop"
    /\ touched' = TRUE
    /\ vfrv' = TRUE
    /\ cur' = NextCur(chip, fblocks(chip, blockno), fblocks(chip, blockno + 1))
    /\ UNCHANGED << sessVars, hwOps, flmcrVars, wdtVars, cellVars, imask, ptrVars, retVars,
                    blockno, count, bitsel, ebGhost, wbVars, fwVars, fwGhost, wpVars, devVars >>

fe_ebr2_clr == FeLast("fe_ebr2_clr") /\ EBR2' = 0 /\ UNCHANGED EBR1

fe_pebr_clr ==
    /\ FeLast("fe_pebr_clr")
    /\ EBR1' = IF pEBR = "EBR1" THEN 0 ELSE EBR1
    /\ EBR2' = IF pEBR = "EBR2" THEN 0 ELSE EBR2

\* for (; cur < end; cur++) { *pFLMCR |= FLMCR_EV;
ev_set ==
    /\ cur < fblocks(chip, blockno + 1)
    /\ FlmcrStep("ev_loop", "ev_probe", OrBits(Reg(pFLMCR), FLMCR_EV))
    /\ UNCHANGED << cellVars, devVars, vfrv, cur, ebGhost >>

\* *cur = 0xFFFFFFFF; if (*cur != 0xFFFFFFFF) { rv = 0; break; }
ev_probe ==
    /\ pc = "ev_probe"
    /\ latch' = LatchWord(chip, latch, cur, AllOnes)
    /\ touched' = TRUE
    /\ IF ferasevf_mismatch(flash[cur])
       THEN vfrv' = FALSE /\ pc' = "ev_clr" /\ UNCHANGED cur
       ELSE /\ cur' = NextCur(chip, cur + 4, fblocks(chip, blockno + 1))
            /\ pc' = "ev_loop"
            /\ UNCHANGED vfrv
    /\ UNCHANGED << sessVars, hwOps, flmcrVars, ebrVars, wdtVars, flash, imask, ptrVars,
                    retVars, blockno, count, bitsel, ebGhost, wbVars, fwVars, fwGhost,
                    wpVars, devVars >>

\* *pFLMCR &= ~FLMCR_EV; return rv;
ev_clr ==
    /\ pc = "ev_clr" \/ (pc = "ev_loop" /\ cur >= fblocks(chip, blockno + 1))
    /\ pc' = "eb_vf"
    /\ SetFLMCR(pFLMCR, ClearBits(Reg(pFLMCR), FLMCR_EV))
    /\ touched' = TRUE
    /\ evfails' = IF vfrv THEN evfails ELSE evfails + 1
    /\ UNCHANGED << sessVars, hwOps, ebrVars, wdtVars, cellVars, imask, ptrVars, retVars,
                    ebVars, epulses, wbVars, fwVars, fwGhost, cur, wpVars, devVars >>

\* if (ferasevf(blockno)) { sweclear(); return 0; }
eb_verified ==
    /\ pc = "eb_vf"
    /\ vfrv
    /\ SetFLMCR(SweReg(chip, pFLMCR), sweclear_value(Reg(SweReg(chip, pFLMCR))))
    /\ touched' = TRUE
    /\ Return(0)
    /\ UNCHANGED << sessVars, hwOps, ebrVars, wdtVars, cellVars, imask, ptrVars, call,
                    ebGhost, fwGhost, devVars >>

\* count++
eb_retry ==
    /\ pc = "eb_vf"
    /\ ~vfrv
    /\ count' = count + 1
    /\ pc' = "eb_loop"
    /\ UNCHANGED << sessVars, hwOps, flmcrVars, ebrVars, wdtVars, cellVars, imask, ptrVars,
                    retVars, blockno, bitsel, vfrv, ebGhost, wbVars, fwVars, fwGhost, cur,
                    wpVars, devVars, touched >>

EraseNext ==
    \/ \E b \in BlockInputs(chip) : platf_flash_eb(b)
    \/ eb_sweset \/ eb_wdt_stop \/ eb_wdt_rst \/ eb_attempt \/ eb_badexit
    \/ fe_ebr2_zero \/ fe_ebr1 \/ fe_ebr2 \/ fe_pebr
    \/ fe_wdt_stop \/ fe_wdt_estart \/ fe_esu \/ fe_e \/ fe_e_clr \/ fe_esu_clr
    \/ fe_wdt_stop2 \/ fe_ebr1_clr \/ fe_ebr2_clr \/ fe_pebr_clr
    \/ ev_set \/ ev_probe \/ ev_clr \/ eb_verified \/ eb_retry

-----------------------------------------------------------------------------
(* Write: platf_flash_wb, flash_write32 / flash_write128, writepulse *)

\* low halves of the payload pointers handed to platf_flash_wb
SrcAddrs == { 36864 }

\* payload words
SrcPatterns == { Zeros, LowClear }

\* (dest, len) requests
WbArgs(c) ==
    { << ChunkA(c), 0 >>, << ChunkA(c), CHUNK(c) >>, << ChunkA(c), 2 * CHUNK(c) >>,
      << ChunkB(c), CHUNK(c) >>, << ChunkA(c) + 4, CHUNK(c) >>,
      << FL_MAXROM(c) + 1, CHUNK(c) >>, << ChunkA(c), 4 >>,
      << ChunkC(c), 2 * CHUNK(c) >>, << FL_MAXROM(c) + 5, CHUNK(c) >>,
      << ChunkA(c) + 4, 4 >>, << FL_MAXROM(c) + 1, 4 >> }

\* *(volatile u32 *) a
ReadFlash(fl, a) == IF a \in DOMAIN fl THEN fl[a] ELSE AllOnes

\* the sampled offset after cur (cur += 4)
NextOff(c, off) ==
    LET S == { o \in WordOffs(c) : o > off }
    IN  IF S = {} THEN CHUNK(c) ELSE CHOOSE o \in S : \A x \in S : o <= x

wb_check_args_len_first(c, d, l) ==
    IF d > FL_MAXROM(c) THEN PFWB_OOB
    ELSE IF BitAnd(l, CHUNK(c) - 1) # 0 THEN PFWB_LEN
    ELSE IF BitAnd(d, CHUNK(c) - 1) # 0 THEN PFWB_MISALIGNED
    ELSE 0

wb_check_args_no_len(c, d, l) ==
    IF d > FL_MAXROM(c) THEN PFWB_OOB
    ELSE IF BitAnd(d, CHUNK(c) - 1) # 0 THEN PFWB_MISALIGNED
    ELSE 0

\* argument checks of platf_flash_wb: 0 when they pass
wb_check_args(c, d, l) ==
    IF d > FL_MAXROM(c) THEN PFWB_OOB
    ELSE IF BitAnd(d, CHUNK(c) - 1) # 0 THEN PFWB_MISALIGNED
    ELSE IF BitAnd(l, CHUNK(c) - 1) # 0 THEN PFWB_LEN
    ELSE 0

\* 7051: if (!reflash_enabled) return 0;  before the loop
wb_protected(c, en) == c = SH7051 /\ ~en

\* 7055: if (reflash_enabled) rv = flash_write128(dest, src);  inside the loop
wb_calls_chunk(c, en) == c = SH7051 \/ en

wb_stop_never(r) == FALSE

\* if (rv) return rv;
wb_stop(r) == r # 0

\* dest += 32 / 128
wb_next_dest(c, d) == d + CHUNK(c)

fw_select_FLMCR(c, d) ==
    IF c = SH7051
    THEN IF d < FLMCR2_BEGIN THEN "FLMCR1" ELSE "FLMCR2"
    ELSE IF d < fblocks(c, FLMCR1_MAXBLOCK + 1) THEN "FLMCR1" ELSE "FLMCR2"

fw_fwe_code(c) == IF c = SH7051 THEN PF_ERROR ELSE -1

fw_verifail_code(c) == IF c = SH7051 THEN PFWB_VERIFAIL ELSE -1

\* the loop condition n < MAX_WT
fw_continue(c, k) == k < MAX_WT(c)

\* after the loop. 7051: rv = PFWB_MAXRET; 7055: if (!m) return 0; rv = -1
fw_exhaust_code(c, mm) == IF c = SH7051 THEN PFWB_MAXRET ELSE IF ~mm THEN 0 ELSE -1

\* duration of the main pulse of attempt k
fw_tsp(c, k) == IF c = SH7051 THEN TSP500 ELSE IF k <= OW_COUNT THEN TSP30 ELSE TSP200

\* 7051: verifdata != srcdata;  7055: verifdata != *(u32 *) (reprog + cur)
fw_mismatch(c, verifdata, srcdata, rep) ==
    IF c = SH7051 THEN verifdata # srcdata ELSE verifdata # rep

\* 7051: srcdata & ~verifdata;  7055: src & ~verifdata, src being the pointer
fw_fault(c, srcptr, srcdata, verifdata) ==
    IF c = SH7051
    THEN WAnd(srcdata, WNot(verifdata)) # {}
    ELSE WAnd(SrcPtrWord(srcptr), WNot(verifdata)) # {}

fw_reprog_source(srcdata, verifdata) == srcdata

\* reprogramming data: srcdata | ~verifdata
fw_reprog(srcdata, verifdata) == WOr(srcdata, WNot(verifdata))

\* additional programming data: verifdata | reprog
fw_addit(verifdata, rep) == WOr(verifdata, rep)

\* 7055 only: if (n <= 6)
fw_has_addit(c, k) == c = SH7055_35 /\ k <= 6

\* the attempt counter after an attempt that did not return.
\* 7051: for (...; n++);  7055: the while loop never changes n
fw_next_n(c, k) == IF c = SH7051 THEN k + 1 ELSE k

\* writepulse, last clear. 7051: *pFLMCR &= ~FLMCR_PSU;  7055: *pFLMCR &= !FLMCR_PSU
wp_psu_clr_value(c, reg) ==
    IF c = SH7051 THEN ClearBits(reg, FLMCR_PSU) ELSE BitAnd(reg, LogicalNot(FLMCR_PSU))

\* imask_savedisable(): raises the interrupt mask to its maximum, returns the old one
imask_savedisable(old) == 15

platf_flash_wb(d, s, l) ==
    /\ Enter("wb", << d, l >>)
    /\ UNCHANGED << chip, reflash_enabled, flmcrVars, ebrVars, wdtVars, cellVars, imask,
                    ptrVars, devVars >>
    /\ IF wb_check_args(chip, d, l) # 0
       THEN Return(wb_check_args(chip, d, l)) /\ UNCHANGED hwOps
       ELSE IF wb_protected(chip, reflash_enabled)
       THEN Return(0) /\ UNCHANGED hwOps
       ELSE /\ reflash_enabled => hwOps < MaxHwOps
            /\ hwOps' = IF reflash_enabled THEN hwOps + 1 ELSE hwOps
            /\ pc' = "wb_loop"
            /\ dest' = d /\ src' = s /\ len' = l
            /\ ret' = 0
            /\ UNCHANGED << ebVars, fwVars, cur, wpVars >>

\* while (len) { rv = flash_writeNN(dest, src);
wb_call ==
    /\ pc = "wb_loop"
    /\ len # 0
    /\ IF wb_calls_chunk(chip, reflash_enabled)
       THEN pc' = "fw_entry" /\ UNCHANGED rv
       ELSE pc' = "wb_ret" /\ rv' = 0
    /\ UNCHANGED << sessVars, hwOps, flmcrVars, ebrVars, wdtVars, cellVars, imask, ptrVars,
                    retVars, ebVars, ebGhost, wbVars, n, m, reprog, addit, srcmem, fwGhost,
                    cur, wpVars, devVars, touched >>

\* return 0;  after the loop
wb_done ==
    /\ pc = "wb_loop"
    /\ len = 0
    /\ Return(0)
    /\ UNCHANGED << sessVars, hwOps, flmcrVars, ebrVars, wdtVars, cellVars, imask, ptrVars,
                    call, ebGhost, fwGhost, devVars, touched >>

\* if (rv) return rv;
wb_fail ==
    /\ pc = "wb_ret"
    /\ wb_stop(rv)
    /\ chunkLog' = IF wb_calls_chunk(chip, reflash_enabled)
                   THEN Append(chunkLog, << dest, rv >>) ELSE chunkLog
    /\ Return(rv)
    /\ UNCHANGED << sessVars, hwOps, flmcrVars, ebrVars, wdtVars, cellVars, imask, ptrVars,
                    call, ebGhost, faultSeen, cleanPass, wstart, devVars, touched >>

\* dest += NN; src += NN; len -= NN;
wb_advance ==
    /\ pc = "wb_ret"
    /\ ~wb_stop(rv)
    /\ chunkLog' = IF wb_calls_chunk(chip, reflash_enabled)
                   THEN Append(chunkLog, << dest, rv >>) ELSE chunkLog
    /\ dest' = wb_next_dest(chip, dest)
    /\ src' = src + CHUNK(chip)
    /\ len' = len - CHUNK(chip)
    /\ pc' = "wb_loop"
    /\ UNCHANGED << sessVars, hwOps, flmcrVars, ebrVars, wdtVars, cellVars, imask, ptrVars,
                    retVars, ebVars, ebGhost, fwVars, faultSeen, cleanPass, wstart, cur,
                    wpVars, devVars, touched >>

\* entry of flash_write32 / flash_write128 up to the copy of the payload
fw_entry ==
    /\ pc = "fw_entry"
    /\ pFLMCR' = fw_select_FLMCR(chip, dest)
    /\ faultSeen' = FALSE /\ cleanPass' = FALSE
    /\ wstart' = [ erased |-> \A o \in WordOffs(chip) : ReadFlash(flash, dest + o) = AllOnes,
                   last |-> 0, latched |-> ChunkOf(chip, AllOnes), tries |-> 0 ]
    /\ IF ~fwecheck(FLMCR1, FLMCR2)
       THEN /\ rv' = fw_fwe_code(chip)
            /\ pc' = "wb_ret"
            /\ UNCHANGED << srcmem, reprog, addit >>
       ELSE /\ \E w \in SrcPatterns : srcmem' = ChunkOf(chip, w)
            /\ reprog' = srcmem'
            /\ addit' = ChunkOf(chip, AllOnes)   \* never read before it is written
            /\ pc' = "fw_sweset"
            /\ UNCHANGED rv
    /\ UNCHANGED << sessVars, hwOps, flmcrVars, ebrVars, wdtVars, cellVars, imask, pEBR,
                    retVars, ebVars, ebGhost, wbVars, n, m, chunkLog, cur, wpVars,
                    devVars, touched >>

\* a step of the write path that stores to one register
WStep(at, next) ==
    /\ pc = at
    /\ pc' = next
    /\ touched' = TRUE
    /\ UNCHANGED << sessVars, hwOps, ebrVars, ptrVars, retVars, ebVars, ebGhost, wbVars,
                    m, rv, reprog, addit, srcmem, faultSeen, wstart, chunkLog, tsp, wpsite >>

fw_sweset ==
    /\ WStep("fw_sweset", "fw_wdt_stop")
    /\ SetFLMCR(SweReg(chip, pFLMCR), sweset_value(Reg(SweReg(chip, pFLMCR))))
    /\ UNCHANGED << wdtVars, cellVars, imask, n, cleanPass, cur, uim, devVars >>

fw_wdt_stop ==
    /\ WStep("fw_wdt_stop", "fw_wdt_rst")
    /\ TCSR' = WDT_TCSR_STOP
    /\ UNCHANGED << flmcrVars, RSTCSR, cellVars, imask, n, cleanPass, cur, uim, devVars >>

fw_wdt_rst ==
    /\ WStep("fw_wdt_rst", "fw_loop")
    /\ RSTCSR' = WDT_RSTCSR_SETTING(chip)
    /\ n' = 1
    /\ UNCHANGED << flmcrVars, TCSR, cellVars, imask, cleanPass, cur, uim, devVars >>

\* loop entry (m = 0) and latch of the reprogramming data, byte by byte
fw_latch ==
    /\ pc = "fw_loop"
    /\ fw_continue(chip, n)
    /\ m' = FALSE
    /\ latch' = [ base |-> dest, data |-> reprog ]
    /\ touched' = TRUE
    /\ tsp' = fw_tsp(chip, n)
    /\ wpsite' = "main"
    /\ pc' = "wp_imask"
    /\ wstart' = [ wstart EXCEPT !.last = n, !.latched = reprog,
                                 !.tries = IF @ > OW_COUNT THEN @ ELSE @ + 1 ]
    /\ UNCHANGED << sessVars, hwOps, flmcrVars, ebrVars, wdtVars, flash, imask, ptrVars,
                    retVars, ebVars, ebGhost, wbVars, n, rv, reprog, addit, srcmem,
                    faultSeen, cleanPass, chunkLog, cur, uim, devVars >>

\* the loop ran out: sweclear(); return
fw_exhausted ==
    /\ pc = "fw_loop"
    /\ ~fw_continue(chip, n)
    /\ SetFLMCR(SweReg(chip, pFLMCR), sweclear_value(Reg(SweReg(chip, pFLMCR))))
    /\ touched' = TRUE
    /\ rv' = fw_exhaust_code(chip, m)
    /\ pc' = "wb_ret"
    /\ UNCHANGED << sessVars, hwOps, ebrVars, wdtVars, cellVars, imask, ptrVars, retVars,
                    ebVars, ebGhost, wbVars, n, m, reprog, addit, srcmem, fwGhost, cur,
                    wpVars, devVars >>

\* uim = imask_savedisable()
wp_imask ==
    /\ pc = "wp_imask"
    /\ uim' = imask
    /\ imask' = imask_savedisable(imask)
    /\ pc' = "wp_wdt_stop"
    /\ UNCHANGED << sessVars, hwOps, flmcrVars, ebrVars, wdtVars, cellVars, ptrVars, retVars,
                    ebVars, ebGhost, wbVars, fwVars, fwGhost, cur, tsp, wpsite, devVars,
                    touched >>

wp_wdt_stop ==
    /\ WStep("wp_wdt_stop", "wp_wdt_wstart")
    /\ TCSR' = WDT_TCSR_STOP
    /\ UNCHANGED << flmcrVars, RSTCSR, cellVars, imask, n, cleanPass, cur, uim, devVars >>

wp_wdt_wstart ==
    /\ WStep("wp_wdt_wstart", "wp_psu")
    /\ TCSR' = WDT_TCSR_WSTART
    /\ UNCHANGED << flmcrVars, RSTCSR, cellVars, imask, n, cleanPass, cur, uim, devVars >>

wp_psu ==
    /\ WStep("wp_psu", "wp_p")
    /\ SetFLMCR(pFLMCR, OrBits(Reg(pFLMCR), FLMCR_PSU))
    /\ UNCHANGED << wdtVars, cellVars, imask, n, cleanPass, cur, uim, devVars >>

\* start of the program pulse
wp_p ==
    /\ WStep("wp_p", "wp_p_clr")
    /\ SetFLMCR(pFLMCR, OrBits(Reg(pFLMCR), FLMCR_P))
    /\ UNCHANGED << wdtVars, cellVars, imask, n, cleanPass, cur, uim, devVars >>

\* end of the program pulse: the latched cells have been programmed, or not
wp_p_clr ==
    /\ WStep("wp_p_clr", "wp_psu_clr")
    /\ SetFLMCR(pFLMCR, ClearBits(Reg(pFLMCR), FLMCR_P))
    /\ \E s \in Strengths(stuck, weak, {"full", "part", "none"}) :
          /\ flash' = ProgramCells(chip, pFLMCR, flash, latch, s)
          /\ weak' = IF s = "full" \/ stuck THEN weak ELSE weak - 1
    /\ UNCHANGED << wdtVars, latch, imask, n, cleanPass, cur, uim, stuck >>

wp_psu_clr ==
    /\ WStep("wp_psu_clr", "wp_wdt_stop2")
    /\ SetFLMCR(pFLMCR, wp_psu_clr_value(chip, Reg(pFLMCR)))
    /\ UNCHANGED << wdtVars, cellVars, imask, n, cleanPass, cur, uim, devVars >>

wp_wdt_stop2 ==
    /\ WStep("wp_wdt_stop2", "wp_restore")
    /\ TCSR' = WDT_TCSR_STOP
    /\ UNCHANGED << flmcrVars, RSTCSR, cellVars, imask, n, cleanPass, cur, uim, devVars >>

\* imask_restore(uim); return to the caller of writepulse
wp_restore ==
    /\ pc = "wp_restore"
    /\ imask' = uim
    /\ pc' = IF wpsite = "main" THEN "fw_pv_set" ELSE "fw_loop"
    /\ n' = IF wpsite = "main" THEN n ELSE fw_next_n(chip, n)
    /\ UNCHANGED << sessVars, hwOps, flmcrVars, ebrVars, wdtVars, cellVars, ptrVars, retVars,
                    ebVars, ebGhost, wbVars, m, rv, reprog, addit, srcmem, fwGhost, cur,
                    wpVars, devVars, touched >>

\* *pFLMCR |= FLMCR_PV
fw_pv_set ==
    /\ WStep("fw_pv_set", "fw_vloop")
    /\ SetFLMCR(pFLMCR, OrBits(Reg(pFLMCR), FLMCR_PV))
    /\ cur' = 0
    /\ UNCHANGED << wdtVars, cellVars, imask, n, cleanPass, uim, devVars >>

\* one word of the program-verify loop
fw_vword ==
    /\ pc = "fw_vloop"
    /\ cur < CHUNK(chip)
    /\ latch' = LatchWord(chip, latch, dest + cur, AllOnes)
    /\ touched' = TRUE
    /\ LET verifdata == ReadFlash(flash, dest + cur)
           srcdata == srcmem[cur]
       IN  /\ m' = (m \/ fw_mismatch(chip, verifdata, srcdata, reprog[cur]))
           /\ addit' = IF fw_has_addit(chip, n)
                       THEN [ addit EXCEPT ![cur] = fw_addit(verifdata, reprog[cur]) ]
                       ELSE addit
           /\ faultSeen' = (faultSeen \/ WAnd(srcdata, WNot(verifdata)) # {})
           /\ IF fw_fault(chip, src, srcdata, verifdata)
              THEN /\ rv' = fw_verifail_code(chip)
                   /\ pc' = "fw_badexit"
                   /\ UNCHANGED << reprog, cur >>
              ELSE /\ reprog' = [ reprog EXCEPT ![cur] = fw_reprog(srcdata, verifdata) ]
                   /\ cur' = NextOff(chip, cur)
                   /\ pc' = "fw_vloop"
                   /\ UNCHANGED rv
    /\ UNCHANGED << sessVars, hwOps, flmcrVars, ebrVars, wdtVars, flash, imask, ptrVars,
                    retVars, ebVars, ebGhost, wbVars, n, srcmem, cleanPass, wstart, chunkLog,
                    wpVars, devVars >>

\* *pFLMCR &= ~FLMCR_PV
fw_pv_clr ==
    /\ pc = "fw_vloop"
    /\ cur >= CHUNK(chip)
    /\ WStep("fw_vloop", IF chip = SH7051 THEN "fw_mcheck"
                         ELSE IF fw_has_addit(chip, n) THEN "fw_alatch" ELSE "fw_loop")
    /\ SetFLMCR(pFLMCR, ClearBits(Reg(pFLMCR), FLMCR_PV))
    /\ cleanPass' = (cleanPass \/ ~m)
    /\ n' = IF chip = SH7051 \/ fw_has_addit(chip, n) THEN n ELSE fw_next_n(chip, n)
    /\ UNCHANGED << wdtVars, cellVars, imask, cur, uim, devVars >>

\* 7051: if (!m) { sweclear(); return 0; }
fw_success ==
    /\ pc = "fw_mcheck"
    /\ ~m
    /\ SetFLMCR(SweReg(chip, pFLMCR), sweclear_value(Reg(SweReg(chip, pFLMCR))))
    /\ touched' = TRUE
    /\ rv' = 0
    /\ pc' = "wb_ret"
    /\ UNCHANGED << sessVars, hwOps, ebrVars, wdtVars, cellVars, imask, ptrVars, retVars,
                    ebVars, ebGhost, wbVars, n, m, reprog, addit, srcmem, fwGhost, cur,
                    wpVars, devVars >>

\* 7051: next attempt (n++)
fw_next ==
    /\ pc = "fw_mcheck"
    /\ m
    /\ n' = fw_next_n(chip, n)
    /\ pc' = "fw_loop"
    /\ UNCHANGED << sessVars, hwOps, flmcrVars, ebrVars, wdtVars, cellVars, imask, ptrVars,
                    retVars, ebVars, ebGhost, wbVars, m, rv, reprog, addit, srcmem, fwGhost,
                    cur, wpVars, devVars, touched >>

\* 7055: latch of the additional programming data, then writepulse(TSP10)
fw_alatch ==
    /\ pc = "fw_alatch"
    /\ latch' = [ base |-> dest, data |-> addit ]
    /\ touched' = TRUE
    /\ tsp' = TSP10
    /\ wpsite' = "addit"
    /\ pc' = "wp_imask"
    /\ UNCHANGED << sessVars, hwOps, flmcrVars, ebrVars, wdtVars, flash, imask, ptrVars,
                    retVars, ebVars, ebGhost, wbVars, fwVars, fwGhost, cur, uim, devVars >>

\* badexit: sweclear(); return rv;
fw_badexit ==
    /\ pc = "fw_badexit"
    /\ SetFLMCR(SweReg(chip, pFLMCR), sweclear_value(Reg(SweReg(chip, pFLMCR))))
    /\ touched' = TRUE
    /\ pc' = "wb_ret"
    /\ UNCHANGED << sessVars, hwOps, ebrVars, wdtVars, cellVars, imask, ptrVars, retVars,
                    ebVars, ebGhost, wbVars, fwVars, fwGhost, cur, wpVars, devVars >>

WriteNext ==
    \/ \E a \in WbArgs(chip), s \in SrcAddrs : platf_flash_wb(a[1], s, a[2])
    \/ wb_call \/ wb_done \/ wb_fail \/ wb_advance
    \/ fw_entry \/ fw_sweset \/ fw_wdt_stop \/ fw_wdt_rst \/ fw_latch \/ fw_exhausted
    \/ wp_imask \/ wp_wdt_stop \/ wp_wdt_wstart \/ wp_psu \/ wp_p \/ wp_p_clr
    \/ wp_psu_clr \/ wp_wdt_stop2 \/ wp_restore
    \/ fw_pv_set \/ fw_vword \/ fw_pv_clr \/ fw_success \/ fw_next \/ fw_alatch
    \/ fw_badexit

Next ==
    \/ platf_flash_init
    \/ platf_flash_unprotect
    \/ EraseNext
    \/ WriteNext

Spec == Init /\ [][Next]_vars

\* a running operation always takes its next step
FairSpec == Spec /\ WF_vars(Next /\ pc # "idle")

-----------------------------------------------------------------------------
(* Properties *)

Returned(op) == pc = "idle" /\ call.op = op

\* the low seven (writable) bits of a control register
CtlBits(reg) == reg % 128

HwIdle ==
    /\ CtlBits(FLMCR1) = 0 /\ CtlBits(FLMCR2) = 0
    /\ EBR1 = 0 /\ EBR2 = 0
    /\ TCSR = WDT_TCSR_STOP

ValidWb(c, d, l) == d <= FL_MAXROM(c) /\ d % CHUNK(c) = 0 /\ l % CHUNK(c) = 0

WpPcs == { "wp_imask", "wp_wdt_stop", "wp_wdt_wstart", "wp_psu", "wp_p", "wp_p_clr",
           "wp_psu_clr", "wp_wdt_stop2", "wp_restore" }

\* C1: eraseBlock and writeRange write nothing to the hardware unless the
\* session is enabled, and then return 0 for valid arguments; init leaves
\* enabled false, unprotect leaves it true, eraseBlock / writeRange keep it.
C1_DisabledIsNoOp ==
    /\ call.op \in {"eb", "wb"} => reflash_enabled = call.en
    /\ (call.op \in {"eb", "wb"} /\ ~call.en) => ~touched
    /\ (Returned("eb") /\ ~call.en /\ call.args[1] < BLK_MAX(chip)) => ret = 0
    /\ (Returned("wb") /\ ~call.en /\ ValidWb(chip, call.args[1], call.args[2])) => ret = 0
    /\ Returned("init") => ~reflash_enabled
    /\ Returned("unprotect") => reflash_enabled

C1_Witness ==
    /\ Returned("wb") /\ ~call.en /\ call.args[2] = 2 * CHUNK(chip)
    /\ ValidWb(chip, call.args[1], call.args[2])
    /\ ret = 0 /\ ~touched /\ hwOps > 0

\* C2: when eraseBlock or writeRange has returned, no SWE bit is asserted.
C2_SweClearOnReturn ==
    (Returned("eb") \/ Returned("wb")) =>
        (~HasBit(FLMCR1, FLMCR_SWE) /\ ~HasBit(FLMCR2, FLMCR_SWE))

C2_Witness == Returned("wb") /\ touched /\ ret # 0 /\ Len(chunkLog) = 1

\* C3: on every exit of eraseBlock and of writeChunk the hardware is idle: no
\* control bit set, no block selected, watchdog stopped.
C3_IdleOnExit ==
    (Returned("eb") \/ Returned("wb") \/ pc = "wb_ret") => HwIdle

\* C4: writeChunk returns VerifyHardFault exactly when a verify readback had a
\* 0 where the source word has a 1, and does so at once: nothing but the exit
\* path runs after that readback.
C4_FaultLaw ==
    /\ (pc = "wb_ret" /\ wb_calls_chunk(chip, reflash_enabled) /\ fwecheck(FLMCR1, FLMCR2)) =>
           /\ faultSeen => rv = PFWB_VERIFAIL
           /\ ~faultSeen => rv \in {0, PFWB_MAXRET}
    /\ faultSeen => pc \in {"fw_badexit", "wb_ret", "idle"}

\* C5: on an erased chunk of a device that completes every cell after at most
\* MaxWeak weak pulses, writeChunk returns success with the flash equal to the
\* source, and no main pulse is latched with a 0 at a bit that already is 0.
C5_BitReconstruction ==
    /\ (pc = "wb_ret" /\ wb_calls_chunk(chip, reflash_enabled) /\ wstart.erased
          /\ ~stuck /\ fwecheck(FLMCR1, FLMCR2)) =>
           (rv = 0 /\ \A o \in WordOffs(chip) : ReadFlash(flash, dest + o) = srcmem[o])
    /\ (pc = "wp_p" /\ wpsite = "main" /\ wstart.erased) =>
           \A o \in WordOffs(chip) : WOr(latch.data[o], ReadFlash(flash, dest + o)) = AllOnes

\* C6: every writeChunk that got past its preflight returns: its retry loop
\* ends, whatever the device does.
C6_WriteChunkTerminates ==
    [](pc = "fw_sweset" => <>(pc = "wb_ret"))

\* C7: once a program-verify pass ended without mismatch, no main latch or
\* main pulse follows, and writeChunk returns success.
C7_SuccessEndsLoop ==
    /\ cleanPass => ~(pc \in WpPcs /\ wpsite = "main")
    /\ (cleanPass /\ pc = "wb_ret") => rv = 0

\* C8: an eraseBlock that drove the hardware issued at most MAX_ET erase
\* pulses; it returns 0 at the first verify pass that passes and
\* EraseVerifyFailed exactly when all MAX_ET verify passes failed.
C8_EraseAttempts ==
    /\ epulses <= MAX_ET(chip)
    /\ (Returned("eb") /\ touched) =>
          /\ ret \in {0, PFEB_VERIFAIL}
          /\ ret = 0 => evfails = epulses - 1
          /\ ret = PFEB_VERIFAIL <=> evfails = MAX_ET(chip)

\* C9: eraseBlock on a block that reads blank issues exactly one erase pulse,
\* makes one verify pass, which passes, and returns 0.
C9_EraseBlankOnce ==
    (call.op = "eb" /\ call.blank) =>
        /\ epulses <= 1 /\ evfails = 0
        /\ (pc = "idle" /\ touched) => (ret = 0 /\ epulses = 1)

C9_Witness ==
    Returned("eb") /\ call.blank /\ touched /\ ret = 0 /\ epulses = 1 /\ ~stuck

\* C10: writeRange calls writeChunk on dest, dest + chunk, ... in order, stops
\* at the first failure returning that chunk's code, and returns 0 only after
\* all len / chunk chunks succeeded.
C10_RangeIteration ==
    (call.op = "wb" /\ call.en /\ ValidWb(chip, call.args[1], call.args[2])) =>
        LET k == Len(chunkLog)
            total == call.args[2] \div CHUNK(chip)
        IN  /\ k <= total
            /\ \A i \in 1 .. k : chunkLog[i][1] = call.args[1] + (i - 1) * CHUNK(chip)
            /\ \A i \in 1 .. k - 1 : chunkLog[i][2] = 0
            /\ pc = "fw_entry" => (dest = call.args[1] + k * CHUNK(chip)
                                    /\ \A i \in 1 .. k : chunkLog[i][2] = 0)
            /\ (pc = "idle" /\ ret # 0) => (k >= 1 /\ chunkLog[k][2] = ret)
            /\ (pc = "idle" /\ ret = 0) => (k = total /\ \A i \in 1 .. k : chunkLog[i][2] = 0)

C10_Witness ==
    /\ Returned("wb") /\ call.en /\ Len(chunkLog) = 2
    /\ chunkLog[1][2] = 0 /\ chunkLog[2][2] # 0 /\ ret = chunkLog[2][2]

\* C11: eraseBlock with blockIndex >= blockCount returns BadBlock at once and
\* writes no register and no flash location, enabled or not.
C11_BadBlock ==
    (call.op = "eb" /\ call.args[1] >= BLK_MAX(chip)) =>
        (pc = "idle" /\ ret = PFEB_BADBLOCK /\ ~touched)

\* C12: a writeRange whose range end dest + len lies beyond the ROM limit
\* returns OutOfBounds, and no location beyond the ROM limit is ever latched.
C12_RangeEndOutOfBounds ==
    /\ (Returned("wb") /\ call.args[2] > 0
          /\ call.args[1] + call.args[2] - 1 > FL_MAXROM(chip)) => ret = PFWB_OOB
    /\ latch.base <= FL_MAXROM(chip)

C11_Witness ==
    /\ Returned("eb") /\ call.args[1] = BLK_MAX(chip) /\ call.en
    /\ fwecheck(FLMCR1, FLMCR2) /\ ret = PFEB_BADBLOCK /\ ~touched

\* C13 as stated: every writeRange with a dest that is not a multiple of the
\* chunk size returns Misaligned without any hardware access.
C13_MisalignedEveryDest ==
    (call.op = "wb" /\ call.args[1] % CHUNK(chip) # 0) =>
        (pc = "idle" /\ ret = PFWB_MISALIGNED /\ ~touched)

\* C13 amended: a dest that is not a multiple of the chunk size never reaches
\* the hardware; writeRange returns Misaligned when that dest is within the ROM
\* limit and OutOfBounds when it is beyond, for every len and enabled state.
C13_MisalignedInRom ==
    (call.op = "wb" /\ call.args[1] % CHUNK(chip) # 0) =>
        /\ pc = "idle" /\ ~touched
        /\ call.args[1] <= FL_MAXROM(chip) => ret = PFWB_MISALIGNED
        /\ call.args[1] > FL_MAXROM(chip) => ret = PFWB_OOB

C13_Witness ==
    /\ Returned("wb") /\ call.en /\ call.args[1] <= FL_MAXROM(chip)
    /\ call.args[1] % CHUNK(chip) # 0 /\ call.args[2] % CHUNK(chip) # 0
    /\ ret = PFWB_MISALIGNED

\* C14 as stated: every writeRange with a len that is not a multiple of the
\* chunk size returns LengthInvalid without any hardware access.
C14_LengthEveryDest ==
    (call.op = "wb" /\ call.args[2] % CHUNK(chip) # 0) =>
        (pc = "idle" /\ ret = PFWB_LEN /\ ~touched)

\* C14 amended: a len that is not a multiple of the chunk size never reaches
\* the hardware, enabled or not; writeRange returns LengthInvalid when dest is
\* within the ROM limit and chunk-aligned, and the code of the dest check
\* that fails otherwise.
C14_LengthValidDest ==
    (call.op = "wb" /\ call.args[2] % CHUNK(chip) # 0) =>
        /\ pc = "idle" /\ ~touched
        /\ ret = IF call.args[1] > FL_MAXROM(chip) THEN PFWB_OOB
                 ELSE IF call.args[1] % CHUNK(chip) # 0 THEN PFWB_MISALIGNED
                 ELSE PFWB_LEN

C14_Witness ==
    /\ Returned("wb") /\ ~call.en /\ call.args[1] <= FL_MAXROM(chip)
    /\ call.args[1] % CHUNK(chip) = 0 /\ call.args[2] % CHUNK(chip) # 0
    /\ ret = PFWB_LEN

\* C15: each failure cause has its own response code, the same in both
\* builds: failed preflight ProtectionFault, erase exhaustion EraseVerifyFailed,
\* write exhaustion MaxRetriesExceeded, wanted-1-read-0 VerifyHardFault; the
\* four codes are pairwise distinct and none is 0.
C15_FixedCodes ==
    /\ (Returned("eb") /\ call.en /\ call.args[1] < BLK_MAX(chip)
          /\ ~fwecheck(FLMCR1, FLMCR2)) => ret = PF_ERROR
    /\ (Returned("eb") /\ touched /\ evfails = MAX_ET(chip)) => ret = PFEB_VERIFAIL
    /\ (pc = "wb_ret" /\ wb_calls_chunk(chip, reflash_enabled)
          /\ ~fwecheck(FLMCR1, FLMCR2)) => rv = PF_ERROR
    /\ (pc = "wb_ret" /\ faultSeen) => rv = PFWB_VERIFAIL
    /\ (pc = "wb_ret" /\ touched /\ ~faultSeen /\ n >= MAX_WT(chip)) => rv = PFWB_MAXRET
    /\ Cardinality({ 0, PF_ERROR, PFEB_VERIFAIL, PFWB_MAXRET, PFWB_VERIFAIL }) = 5

\* the labels of a running flash_write32 / flash_write128
ChunkPcs == WpPcs \cup { "fw_sweset", "fw_wdt_stop", "fw_wdt_rst", "fw_loop", "fw_pv_set",
                         "fw_vloop", "fw_mcheck", "fw_alatch", "fw_badexit" }

\* the labels of writepulse up to the assertion of P
PrePulsePcs == { "wp_imask", "wp_wdt_stop", "wp_wdt_wstart", "wp_psu", "wp_p" }

\* C16 as stated: at every instant of a writeChunk every bit that is 1 in the
\* flash cell is 1 in the reprogram buffer.
C16_ReprogAbovePhysical ==
    pc \in ChunkPcs =>
        \A o \in WordOffs(chip) : ReadFlash(flash, dest + o) \subseteq reprog[o]

\* C16 amended: at every instant of a writeChunk every bit that is 1 in the
\* source snapshot is 1 in the reprogram buffer, and, on a chunk erased at the
\* start, whenever a main pulse is about to act every bit whose cell already is
\* 0 is 1 in the reprogram buffer and in the latch.
C16_ReprogAboveSource ==
    /\ pc \in ChunkPcs => \A o \in WordOffs(chip) : srcmem[o] \subseteq reprog[o]
    /\ (pc \in PrePulsePcs /\ wpsite = "main" /\ wstart.erased) =>
           \A o \in WordOffs(chip) :
               /\ WOr(reprog[o], ReadFlash(flash, dest + o)) = AllOnes
               /\ latch.base = dest /\ latch.data[o] = reprog[o]

C16_Witness ==
    /\ pc = "wp_p" /\ wpsite = "main" /\ wstart.erased /\ n = 2
    /\ \E o \in WordOffs(chip) :
           /\ reprog[o] # srcmem[o] /\ reprog[o] # AllOnes
           /\ ReadFlash(flash, dest + o) # AllOnes

\* the labels of a running platf_flash_eb
ErasePcs == { "eb_sweset", "eb_wdt_stop", "eb_wdt_rst", "eb_loop", "fe_ebr2_zero", "fe_ebr1",
              "fe_ebr2", "fe_pebr", "fe_wdt_stop", "fe_wdt_estart", "fe_esu", "fe_e",
              "fe_e_clr", "fe_esu_clr", "fe_wdt_stop2", "fe_ebr1_clr", "fe_ebr2_clr",
              "fe_pebr_clr", "ev_loop", "ev_probe", "ev_clr", "eb_vf" }

\* every block some block-select bit selects
AllSelected ==
    BlocksSelected(chip, "FLMCR1", EBR1, EBR2) \cup BlocksSelected(chip, "FLMCR2", EBR1, EBR2)

\* C17: eraseBlock and writeChunk drive the register set the threshold assigns
\* to the address (set 1 below, set 2 at or above), and while the erase-pulse
\* bit is asserted the requested block, through that register set, is the only
\* block selected.
C17_RegisterSelection ==
    /\ pc \in ErasePcs => pFLMCR = GovReg(chip, fblocks(chip, blockno))
    /\ pc \in ChunkPcs => pFLMCR = GovReg(chip, dest)
    /\ pc = "fe_e_clr" =>
          /\ AllSelected = { blockno }
          /\ BlocksSelected(chip, pFLMCR, EBR1, EBR2) = { blockno }

\* the value of the register that holds the SWE bit of the running operation
SweRegValue == Reg(SweReg(chip, pFLMCR))

\* C18: whenever an erase-pulse or program-pulse bit is asserted, the SWE bit
\* set at the start of the operation is still asserted and the setup bit of
\* that pulse is asserted in the same register.
C18_PulseInSweMode ==
    \A r \in { "FLMCR1", "FLMCR2" } :
        /\ HasBit(Reg(r), FLMCR_E) =>
              (HasBit(SweRegValue, FLMCR_SWE) /\ HasBit(Reg(r), FLMCR_ESU))
        /\ HasBit(Reg(r), FLMCR_P) =>
              (HasBit(SweRegValue, FLMCR_SWE) /\ HasBit(Reg(r), FLMCR_PSU))

\* the control bits software may write
NamedBits == { FLMCR_SWE, FLMCR_ESU, FLMCR_PSU, FLMCR_EV, FLMCR_PV, FLMCR_E, FLMCR_P }

\* new is old with one named bit raised or lowered, or old itself
OneBitStep(old, new) ==
    \E bit \in NamedBits : new = OrBits(old, bit) \/ new = ClearBits(old, bit)

\* C19: every step that stores to a control register raises or lowers one
\* named bit and leaves every other bit of that register, and the other
\* register, unchanged.
C19_NamedBitOnly ==
    [][ /\ OneBitStep(FLMCR1, FLMCR1') /\ OneBitStep(FLMCR2, FLMCR2')
        /\ FLMCR1' = FLMCR1 \/ FLMCR2' = FLMCR2 ]_vars

\* C20: the attempts of a writeChunk are numbered 1, 2, ... and a writeChunk
\* that returns MaxRetriesExceeded has made attempt number maxWriteAttempts
\* (400 / 1000) last.
C20_ExactlyMaxAttempts ==
    /\ (pc \in PrePulsePcs /\ wpsite = "main") => (wstart.last = n /\ n >= 1)
    /\ (pc = "wb_ret" /\ rv = PFWB_MAXRET) => wstart.last = MAX_WT(chip)

\* C21: when the verify loop of an attempt has read every word, the attempt
\* is marked mismatched exactly when some word read back differs from the
\* reprogram-buffer word that was latched for this attempt.
C21_MismatchAgainstLatched ==
    (pc = "fw_vloop" /\ cur >= CHUNK(chip)) =>
        (m <=> \E o \in WordOffs(chip) : ReadFlash(flash, dest + o) # wstart.latched[o])

\* C22: on the build with additional programming, the main program pulse of
\* the k-th attempt of a chunk write uses the shorter duration for k <= 6 and
\* the longer duration for k > 6 (so a write still mismatching after 6
\* attempts is pulsed with the longer duration), and the corrective pulse is
\* issued only in attempts k <= 6, after program-verify has been lowered.
C22_PulseDurationByAttempt ==
    (chip = SH7055_35 /\ pc \in WpPcs) =>
        /\ wpsite = "main" =>
               tsp = (IF wstart.tries <= OW_COUNT THEN TSP30 ELSE TSP200)
        /\ wpsite = "addit" =>
               /\ tsp = TSP10
               /\ wstart.tries <= OW_COUNT
               /\ ~HasBit(Reg(pFLMCR), FLMCR_PV)

\* labels between arming the deadman timer and disarming it after the teardown
ArmedPcs == { "fe_esu", "fe_e", "fe_e_clr", "fe_esu_clr", "fe_wdt_stop2",
              "wp_psu", "wp_p", "wp_p_clr", "wp_psu_clr", "wp_wdt_stop2" }

\* C23: whenever the erase-pulse bit is asserted the deadman timer runs with
\* the erase timeout class, whenever the program-pulse bit is asserted it runs
\* with the write timeout class, and the timer is stopped after each pulse
\* teardown and whenever an operation has returned.
C23_DeadmanBracketsPulses ==
    /\ \A r \in { FLMCR1, FLMCR2 } :
          /\ HasBit(r, FLMCR_E) => TCSR = WDT_TCSR_ESTART
          /\ HasBit(r, FLMCR_P) => TCSR = WDT_TCSR_WSTART
    /\ TCSR # WDT_TCSR_STOP => pc \in ArmedPcs
    /\ (Returned("eb") \/ Returned("wb")) => TCSR = WDT_TCSR_STOP

\* the program-pulse bit is up under the write timeout class
C23_Witness ==
    /\ pc = "wp_p_clr"
    /\ HasBit(Reg(pFLMCR), FLMCR_P)
    /\ TCSR = WDT_TCSR_WSTART

\* labels of a latch-and-pulse step at which the chunk is latched and the
\* program-setup bit has not been lowered yet
LatchedPcs == WpPcs \ { "wp_wdt_stop2", "wp_restore" }

\* C24: from the latching of the chunk until the program-setup bit has been
\* lowered every interrupt is masked, and outside the latch-and-pulse step
\* the interrupt mask is the one the caller runs with.
C24_InterruptsSuspended ==
    /\ pc \in LatchedPcs => imask = imask_savedisable(uim)
    /\ pc \notin WpPcs => imask = 0

=============================================================================
